---- MODULE Spec2Model ----
(***************************************************************************)
(* Model of gen_gpg_mail.py: one invocation of the script, from the parsed *)
(* command line to process exit.  Python values are tagged tuples so that  *)
(* None, strings, booleans and lists can be compared with each other.      *)
(***************************************************************************)
EXTENDS Integers, Sequences, FiniteSets, TLC

VARIABLES options, cfg_file, cfg_valid, pass_file_is_file,
          pc, ran, sign_password, params, mail_to_encrypt, signature,
          encrypted_mail, mail_to_send, trace, stdout, exit_code

vars == <<options, cfg_file, cfg_valid, pass_file_is_file,
          pc, ran, sign_password, params, mail_to_encrypt, signature,
          encrypted_mail, mail_to_send, trace, stdout, exit_code>>

\* ---------------------------------------------------------------- bounds
\* at most this many flags are passed on one command line
MaxFlags == 3
\* at most this many keys are set in the JSON config file
MaxFileKeys == 2
\* longest attachment list given with -f or in the config file
MaxAttach == 2

\* ---------------------------------------------------------- Python values
None == <<"None">>
Str(s) == <<"str", s>>
PyTrue == <<"bool", "True">>
List(s) == <<"list">> \o s
Items(v) == Tail(v)

\* Python truth value of v, as tested by "if v:"
Truthy(v) ==
    CASE v[1] = "None" -> FALSE
      [] v[1] = "str"  -> v[2] # ""
      [] v[1] = "bool" -> v[2] = "True"
      [] v[1] = "list" -> Len(v) > 1

\* dict(chain(a.items(), b.items())): the later source overwrites the earlier
DictChain(a, b) ==
    [k \in (DOMAIN a) \cup (DOMAIN b) |-> IF k \in DOMAIN b THEN b[k] ELSE a[k]]

EmptyDict == [k \in {} |-> None]

\* ------------------------------------------------------------- constants
_DEFAULT_PARAMS ==
    [recipient     |-> None,
     message       |-> Str("--"),
     subject       |-> Str("No subject"),
     attachments   |-> List(<<>>),
     trust         |-> <<"bool", "False">>,
     gpgenv        |-> Str("./gpgenv"),
     signer        |-> None,
     sign_password |-> None]

ParamKeys == DOMAIN _DEFAULT_PARAMS

\* an entry of the table mapped to the wrong digest name
hash_mapping_swapped ==
    [h \in {"1", "2", "3", "8", "9", "10", "11"} |->
        CASE h = "1"  -> "md5"
          [] h = "2"  -> "sha1"
          [] h = "3"  -> "ripemd160"
          [] h = "8"  -> "sha256"
          [] h = "9"  -> "sha384"
          [] h = "10" -> "sha256"
          [] h = "11" -> "sha224"]

hash_mapping ==
    [h \in {"1", "2", "3", "8", "9", "10", "11"} |->
        CASE h = "1"  -> "md5"
          [] h = "2"  -> "sha1"
          [] h = "3"  -> "ripemd160"
          [] h = "8"  -> "sha256"
          [] h = "9"  -> "sha384"
          [] h = "10" -> "sha512"
          [] h = "11" -> "sha224"]

\* ----------------------------------------------------- the command line
Flags == {"list", "import_key", "recipient", "files", "subject", "message",
          "gpgenv", "trust", "signer", "pass_file", "sign_password", "send",
          "config"}

FileNames == <<"a.txt", "b.zzz", "c.pdf">>

\* the attachment lists -f can build: 1..MaxAttach files, and one out of
\* alphabetical order
FileLists == {SubSeq(FileNames, 1, n) : n \in 1..MaxAttach}
                \cup {<<FileNames[2], FileNames[1]>>}

\* values optparse can store for a flag that was passed
FlagDom(k) ==
    CASE k \in {"list", "trust", "send"} -> {PyTrue}
      [] k = "import_key"    -> {Str(""), Str("key.asc")}
      [] k = "recipient"     -> {Str(""), Str("keyC")}
      [] k = "files"         -> {List(s) : s \in FileLists}
      [] k = "subject"       -> {Str("subjC")}
      [] k = "message"       -> {Str("--"), Str("msgC")}
      [] k = "gpgenv"        -> {Str("envC")}
      [] k = "signer"        -> {Str(""), Str("sigC")}
      [] k = "pass_file"     -> {Str("pass.txt")}
      [] k = "sign_password" -> {Str(""), Str("pwC")}
      [] k = "config"        -> {Str("cfg.json")}

RECURSIVE Assign(_)
Assign(S) ==
    IF S = {} THEN {EmptyDict}
    ELSE LET k == CHOOSE x \in S : TRUE
         IN  {(k :> v) @@ g : v \in FlagDom(k), g \in Assign(S \ {k})}

\* parser.parse_args(): a flag that was not passed is None (no default= anywhere)
parse_args ==
    UNION {{[k \in Flags |-> IF k \in S THEN f[k] ELSE None] : f \in Assign(S)} :
            S \in {T \in SUBSET Flags : Cardinality(T) <= MaxFlags}}

\* --------------------------------------------------- the JSON config file
FileKeys == ParamKeys \cup {"smtp_server"}

FileDom(k) ==
    CASE k = "recipient"     -> {Str("keyF")}
      [] k = "message"       -> {Str("--"), Str("msgF"), None}
      [] k = "subject"       -> {Str("subjF")}
      [] k = "attachments"   -> {None, List(<<FileNames[3]>>)}
      [] k = "trust"         -> {PyTrue}
      [] k = "gpgenv"        -> {Str("envF")}
      [] k = "signer"        -> {Str("sigF")}
      [] k = "sign_password" -> {Str("pwF")}
      [] k = "smtp_server"   -> {Str("smtp.example.org")}

RECURSIVE AssignFile(_)
AssignFile(S) ==
    IF S = {} THEN {EmptyDict}
    ELSE LET k == CHOOSE x \in S : TRUE
         IN  {(k :> v) @@ g : v \in FileDom(k), g \in AssignFile(S \ {k})}

\* the dictionaries json.load can return
FileConfigs ==
    UNION {AssignFile(S) : S \in {T \in SUBSET FileKeys : Cardinality(T) <= MaxFileKeys}}

\* ------------------------------------------------ external collaborators
\* what sys.stdin.read() returns
StdinText == Str("typed on stdin")
\* first line of the passphrase file, trailing newline stripped
PassFileLine == Str("pwP")
\* hash_algo of the object gpg.sign returns: an OpenPGP digest id as a string,
\* or "None" when gpg produced no signature
HashAlgos == {"1", "2", "3", "8", "9", "10", "11", "4", "None"}

\* ------------------------------------------------------------ MIME nodes
NoNode == [kind |-> "none"]
NoResult == [kind |-> "none"]

\* str(x): the serialized form handed to gpg, to print and to sendmail
Serialize(x) == [str_of |-> x]

\* mimetypes.guess_type on the file name
guess_type(name) ==
    CASE name = "a.txt" -> Str("text/plain")
      [] name = "c.pdf" -> Str("application/pdf")
      [] OTHER          -> None

TextLeaf(body) ==
    [kind |-> "leaf", ctype |-> "text/plain", charset |-> "UTF-8",
     cte |-> "quoted-printable", disposition |-> "", filename |-> "",
     payload |-> body]

AttachmentLeaf(file) ==
    LET guessed == guess_type(file)
        ctype == IF Truthy(guessed) THEN guessed[2] ELSE "application/octet-stream"
    IN  [kind |-> "leaf", ctype |-> ctype, charset |-> "",
         cte |-> "base64", disposition |-> "attachment", filename |-> file,
         payload |-> <<"bytes of", file>>]

\* the attach loop run back to front
AttachmentsReversed(files) ==
    IF Truthy(files)
      THEN [i \in 1..Len(Items(files)) |->
                AttachmentLeaf(Items(files)[Len(Items(files)) + 1 - i])]
      ELSE <<>>

\* "if files: for file in files: ... attach": one leaf per file, in order
Attachments(files) ==
    IF Truthy(files)
      THEN [i \in 1..Len(Items(files)) |-> AttachmentLeaf(Items(files)[i])]
      ELSE <<>>

MixedContainer(body, files) ==
    [kind |-> "container", subtype |-> "mixed", micalg |-> "", protocol |-> "",
     subject |-> None, children |-> <<TextLeaf(body)>> \o Attachments(files)]

\* standard input read whatever the message is
ReadsStdinAlways(message) == TRUE

\* "if message == '--'"
ReadsStdin(message) == message = Str("--")

SignaturePart(sig) ==
    [kind |-> "leaf", ctype |-> "application/pgp-signature", charset |-> "",
     cte |-> "noop", disposition |-> "", filename |-> "signature.asc",
     payload |-> Serialize(sig)]

SignedContainer(inner, sig) ==
    [kind |-> "container", subtype |-> "signed",
     micalg |-> "pgp-" \o hash_mapping[sig.hash_algo],
     protocol |-> "application/pgp-signature", subject |-> None,
     children |-> <<inner, SignaturePart(sig)>>]

EncryptedContainer(cipher, subject) ==
    [kind |-> "container", subtype |-> "encrypted", micalg |-> "",
     protocol |-> "application/pgp-encrypted", subject |-> subject,
     children |->
       <<[kind |-> "leaf", ctype |-> "application/pgp-encrypted", charset |-> "",
          cte |-> "7or8bit", disposition |-> "", filename |-> "",
          payload |-> Str("Version: 1")],
         [kind |-> "leaf", ctype |-> "application/octet-stream", charset |-> "",
          cte |-> "7or8bit", disposition |-> "", filename |-> "encrypted.asc",
          payload |-> Serialize(cipher)]>>]

\* a call to an external collaborator, in the order the calls are made
Call(op, data, arg) == [op |-> op, data |-> data, arg |-> arg]

\* ---------------------------------------------------------- parameters
\* the dict comprehension of _encrypt_mail: only values that are not None
cli_config(opts, pw) ==
    LET given == [recipient     |-> opts.recipient,
                  subject       |-> opts.subject,
                  message       |-> opts.message,
                  attachments   |-> opts.files,
                  gpgenv        |-> opts.gpgenv,
                  trust         |-> opts.trust,
                  signer        |-> opts.signer,
                  sign_password |-> pw]
    IN  [k \in {j \in DOMAIN given : given[j] # None} |-> given[k]]

Init ==
    /\ options \in parse_args
    /\ IF options.config = None
         THEN cfg_file = EmptyDict /\ cfg_valid = TRUE
         ELSE \/ cfg_file \in FileConfigs /\ cfg_valid = TRUE
              \/ cfg_file = EmptyDict /\ cfg_valid = FALSE
    /\ pass_file_is_file \in (IF Truthy(options.pass_file) THEN BOOLEAN ELSE {FALSE})
    /\ pc = "main"
    /\ ran = <<>>
    /\ sign_password = None
    /\ params = EmptyDict
    /\ mail_to_encrypt = NoNode
    /\ signature = NoResult
    /\ encrypted_mail = NoResult
    /\ mail_to_send = NoNode
    /\ trace = <<>>
    /\ stdout = <<>>
    /\ exit_code = -1

\* process exit with the given status; an uncaught exception is status 1
Exit(code) == pc' = "exit" /\ exit_code' = code

\* ---------------------------------------------------------------- main
\* "if options.list: _list_keys(options)"
_list_keys ==
    /\ pc = "main"
    /\ Truthy(options.list)
    /\ ran' = Append(ran, "list-keys")
    /\ stdout' = Append(stdout, "keys")
    /\ Exit(0)
    /\ UNCHANGED <<options, cfg_file, cfg_valid, pass_file_is_file, sign_password,
                   params, mail_to_encrypt, signature, encrypted_mail,
                   mail_to_send, trace>>

\* the import branch tested with "if" where main has "elif"
_import_key_if ==
    /\ pc = "main"
    /\ Truthy(options.import_key)
    /\ ran' = Append(ran, "import-key")
    /\ \/ stdout' = Append(stdout, "import results") /\ Exit(0)
       \/ stdout' = stdout /\ Exit(1)
    /\ UNCHANGED <<options, cfg_file, cfg_valid, pass_file_is_file, sign_password,
                   params, mail_to_encrypt, signature, encrypted_mail,
                   mail_to_send, trace>>

\* "elif options.import_key: _import_key(options)"; open() of the key file
\* may raise
_import_key ==
    /\ pc = "main"
    /\ ~Truthy(options.list)
    /\ Truthy(options.import_key)
    /\ ran' = Append(ran, "import-key")
    /\ \/ stdout' = Append(stdout, "import results") /\ Exit(0)
       \/ stdout' = stdout /\ Exit(1)
    /\ UNCHANGED <<options, cfg_file, cfg_valid, pass_file_is_file, sign_password,
                   params, mail_to_encrypt, signature, encrypted_mail,
                   mail_to_send, trace>>

\* "else: parser.print_help()"
print_help ==
    /\ pc = "main"
    /\ ~Truthy(options.list)
    /\ ~Truthy(options.import_key)
    /\ ~(Truthy(options.recipient) \/ Truthy(options.config))
    /\ stdout' = Append(stdout, "usage")
    /\ Exit(0)
    /\ UNCHANGED <<options, cfg_file, cfg_valid, pass_file_is_file, ran,
                   sign_password, params, mail_to_encrypt, signature,
                   encrypted_mail, mail_to_send, trace>>

\* -------------------------------------------------------- _encrypt_mail
\* the passphrase file opened only when a signer was given on the command line
_encrypt_mail_password_lazy ==
    /\ pc = "main"
    /\ ~Truthy(options.list)
    /\ ~Truthy(options.import_key)
    /\ Truthy(options.recipient) \/ Truthy(options.config)
    /\ ran' = Append(ran, "encrypt")
    /\ IF Truthy(options.pass_file) /\ Truthy(options.signer)
         THEN IF pass_file_is_file
                THEN sign_password' = PassFileLine /\ pc' = "config"
                                                   /\ exit_code' = exit_code
                ELSE sign_password' = sign_password /\ Exit(3)
         ELSE /\ sign_password' = IF Truthy(options.sign_password)
                                    THEN options.sign_password ELSE None
              /\ pc' = "config" /\ exit_code' = exit_code
    /\ UNCHANGED <<options, cfg_file, cfg_valid, pass_file_is_file, params,
                   mail_to_encrypt, signature, encrypted_mail, mail_to_send,
                   trace, stdout>>

\* "elif options.recipient or options.config" entering _encrypt_mail, and
\* its choice of the signing passphrase (file first, then --password)
_encrypt_mail_password ==
    /\ pc = "main"
    /\ ~Truthy(options.list)
    /\ ~Truthy(options.import_key)
    /\ Truthy(options.recipient) \/ Truthy(options.config)
    /\ ran' = Append(ran, "encrypt")
    /\ IF Truthy(options.pass_file)
         THEN IF pass_file_is_file
                THEN sign_password' = PassFileLine /\ pc' = "config"
                                                   /\ exit_code' = exit_code
                ELSE sign_password' = sign_password /\ Exit(3)
         ELSE /\ sign_password' = IF Truthy(options.sign_password)
                                    THEN options.sign_password ELSE None
              /\ pc' = "config" /\ exit_code' = exit_code
    /\ UNCHANGED <<options, cfg_file, cfg_valid, pass_file_is_file, params,
                   mail_to_encrypt, signature, encrypted_mail, mail_to_send,
                   trace, stdout>>

\* json.load of the config file, the merge of the three sources, and the
\* first line of encrypt_mail
_encrypt_mail_config ==
    /\ pc = "config"
    /\ IF Truthy(options.config) /\ ~cfg_valid
         THEN params' = params /\ Exit(1)
         ELSE LET file_config == IF Truthy(options.config) THEN cfg_file ELSE EmptyDict
                  config == DictChain(file_config, cli_config(options, sign_password))
              IN  /\ params' = DictChain(_DEFAULT_PARAMS, config)
                  /\ pc' = "build" /\ exit_code' = exit_code
    /\ UNCHANGED <<options, cfg_file, cfg_valid, pass_file_is_file, ran,
                   sign_password, mail_to_encrypt, signature, encrypted_mail,
                   mail_to_send, trace, stdout>>

\* ---------------------------------------------------------- encrypt_mail
\* _build_mail_to_encrypt: message None has no encode(); open() of an
\* attachment may raise
_build_mail_to_encrypt ==
    /\ pc = "build"
    /\ LET message == params.message
           files == params.attachments
           reads == ReadsStdin(message)
           body == IF reads THEN StdinText ELSE message
       IN  /\ trace' = IF reads THEN Append(trace, Call("stdin", NoNode, None))
                                ELSE trace
           /\ IF body = None
                THEN mail_to_encrypt' = mail_to_encrypt /\ Exit(1)
                ELSE \/ /\ mail_to_encrypt' = MixedContainer(body, files)
                        /\ pc' = "built" /\ exit_code' = exit_code
                     \/ /\ Truthy(files)
                        /\ mail_to_encrypt' = mail_to_encrypt /\ Exit(1)
    /\ UNCHANGED <<options, cfg_file, cfg_valid, pass_file_is_file, ran,
                   sign_password, params, signature, encrypted_mail,
                   mail_to_send, stdout>>

\* the signed node built but not carried forward to encryption
sign_not_carried ==
    /\ pc = "built"
    /\ Truthy(params.signer)
    /\ trace' = Append(trace, Call("sign", Serialize(mail_to_encrypt),
                                   <<params.signer, params.sign_password>>))
    /\ \E h \in HashAlgos :
         /\ signature' = [kind |-> "signature", hash_algo |-> h]
         /\ IF h \in DOMAIN hash_mapping
              THEN /\ mail_to_encrypt' = mail_to_encrypt
                   /\ pc' = "signed" /\ exit_code' = exit_code
              ELSE mail_to_encrypt' = mail_to_encrypt /\ Exit(1)
    /\ UNCHANGED <<options, cfg_file, cfg_valid, pass_file_is_file, ran,
                   sign_password, params, encrypted_mail, mail_to_send, stdout>>

\* "if params['signer']": gpg.sign, the micalg lookup (KeyError on an id that
\* is not in the table) and the multipart/signed wrapper
sign ==
    /\ pc = "built"
    /\ Truthy(params.signer)
    /\ trace' = Append(trace, Call("sign", Serialize(mail_to_encrypt),
                                   <<params.signer, params.sign_password>>))
    /\ \E h \in HashAlgos :
         /\ signature' = [kind |-> "signature", hash_algo |-> h]
         /\ IF h \in DOMAIN hash_mapping
              THEN /\ mail_to_encrypt' = SignedContainer(mail_to_encrypt, signature')
                   /\ pc' = "signed" /\ exit_code' = exit_code
              ELSE mail_to_encrypt' = mail_to_encrypt /\ Exit(1)
    /\ UNCHANGED <<options, cfg_file, cfg_valid, pass_file_is_file, ran,
                   sign_password, params, encrypted_mail, mail_to_send, stdout>>

\* the result of gpg.encrypt used without testing its ok flag
encrypt_unchecked ==
    /\ \/ pc = "signed"
       \/ pc = "built" /\ ~Truthy(params.signer)
    /\ trace' = Append(trace, Call("encrypt", Serialize(mail_to_encrypt),
                                   <<params.recipient, params.trust>>))
    /\ \E ok \in BOOLEAN :
         /\ encrypted_mail' = [kind |-> "crypt", ok |-> ok]
         /\ mail_to_send' = EncryptedContainer(encrypted_mail', params.subject)
         /\ pc' = "encrypted" /\ exit_code' = exit_code
    /\ UNCHANGED <<options, cfg_file, cfg_valid, pass_file_is_file, ran,
                   sign_password, params, mail_to_encrypt, signature, stdout>>

\* gpg.encrypt, "if not encrypted_mail.ok: ... sys.exit(2)", and the
\* multipart/encrypted node
encrypt ==
    /\ \/ pc = "signed"
       \/ pc = "built" /\ ~Truthy(params.signer)
    /\ trace' = Append(trace, Call("encrypt", Serialize(mail_to_encrypt),
                                   <<params.recipient, params.trust>>))
    /\ \E ok \in BOOLEAN :
         /\ encrypted_mail' = [kind |-> "crypt", ok |-> ok]
         /\ IF ok
              THEN /\ mail_to_send' = EncryptedContainer(encrypted_mail', params.subject)
                   /\ pc' = "encrypted" /\ exit_code' = exit_code
              ELSE mail_to_send' = mail_to_send /\ Exit(2)
    /\ UNCHANGED <<options, cfg_file, cfg_valid, pass_file_is_file, ran,
                   sign_password, params, mail_to_encrypt, signature, stdout>>

\* ------------------------------------------------------------- output
\* "else: print(_encrypt_mail(options))"
print_mail ==
    /\ pc = "encrypted"
    /\ ~Truthy(options.send)
    /\ stdout' = Append(stdout, Serialize(mail_to_send))
    /\ Exit(0)
    /\ UNCHANGED <<options, cfg_file, cfg_valid, pass_file_is_file, ran,
                   sign_password, params, mail_to_encrypt, signature,
                   encrypted_mail, mail_to_send, trace>>

\* "if options.send: ... _send_mail(mail, options)": without a config file
\* file_config is unbound; without the SMTP keys the lookup raises before
\* the server is contacted; the connection or the transfer may fail
_send_mail ==
    /\ pc = "encrypted"
    /\ Truthy(options.send)
    /\ IF ~Truthy(options.config)
         THEN /\ stdout' = Append(stdout, "When sending, config file is mandatory.")
              /\ trace' = trace /\ Exit(1)
         ELSE IF "smtp_server" \notin DOMAIN cfg_file
                THEN stdout' = stdout /\ trace' = trace /\ Exit(1)
                ELSE /\ trace' = Append(trace, Call("smtp", Serialize(mail_to_send),
                                                    cfg_file["smtp_server"]))
                     /\ \/ stdout' = Append(stdout, "sendmail result") /\ Exit(0)
                        \/ stdout' = stdout /\ Exit(1)
    /\ UNCHANGED <<options, cfg_file, cfg_valid, pass_file_is_file, ran,
                   sign_password, params, mail_to_encrypt, signature,
                   encrypted_mail, mail_to_send>>

Next ==
    \/ _list_keys
    \/ _import_key
    \/ print_help
    \/ _encrypt_mail_password
    \/ _encrypt_mail_config
    \/ _build_mail_to_encrypt
    \/ sign
    \/ encrypt
    \/ print_mail
    \/ _send_mail

Spec == Init /\ [][Next]_vars

\* ================================================================ claims

\* C1 (as stated): once the parameters are merged, every key holds the
\* command line's value if the command line supplied it, else the config
\* file's value if the file supplied it, else the built-in default.  The
\* command line supplies sign_password when -p or --password was passed.
C1_MergePrecedence ==
    params # EmptyDict =>
      \A k \in ParamKeys :
        LET flag == IF k = "attachments" THEN "files" ELSE k
            cliSupplies == IF k = "sign_password"
                             THEN options.pass_file # None \/ options.sign_password # None
                             ELSE options[flag] # None
            cliValue == IF k = "sign_password"
                          THEN IF options.pass_file # None THEN PassFileLine
                                                           ELSE options.sign_password
                          ELSE options[flag]
        IN  params[k] = IF cliSupplies THEN cliValue
                        ELSE IF k \in DOMAIN cfg_file THEN cfg_file[k]
                        ELSE _DEFAULT_PARAMS[k]

\* C2: after gpg.sign returned, an id of the table gives the signed node the
\* tabulated micalg; any other id (or none) ends the run with an uncaught
\* error, no signed node, no encryption and nothing printed.
C2_Micalg ==
    signature # NoResult =>
      LET h == signature.hash_algo
      IN  IF h \in {"1", "2", "3", "8", "9", "10", "11"}
            THEN /\ mail_to_encrypt.subtype = "signed"
                 /\ mail_to_encrypt.micalg =
                      CASE h = "1"  -> "pgp-md5"
                        [] h = "2"  -> "pgp-sha1"
                        [] h = "3"  -> "pgp-ripemd160"
                        [] h = "8"  -> "pgp-sha256"
                        [] h = "9"  -> "pgp-sha384"
                        [] h = "10" -> "pgp-sha512"
                        [] h = "11" -> "pgp-sha224"
            ELSE /\ pc = "exit" /\ exit_code = 1
                 /\ mail_to_encrypt.subtype = "mixed"
                 /\ encrypted_mail = NoResult
                 /\ mail_to_send = NoNode
                 /\ stdout = <<>>

C2_Witness ==
    /\ signature # NoResult
    /\ signature.hash_algo = "10"
    /\ mail_to_encrypt.micalg = "pgp-sha512"

\* C3: when gpg.encrypt reported not-ok the run has ended with status 2, the
\* multipart/encrypted node was never built, nothing was printed and the SMTP
\* server was never contacted.
C3_EncryptFailure ==
    (encrypted_mail # NoResult /\ ~encrypted_mail.ok) =>
      /\ pc = "exit" /\ exit_code = 2
      /\ mail_to_send = NoNode
      /\ stdout = <<>>
      /\ \A i \in DOMAIN trace : trace[i].op # "smtp"

C3_Witness ==
    /\ encrypted_mail # NoResult
    /\ ~encrypted_mail.ok
    /\ Truthy(options.send)
    /\ exit_code = 2

\* C4 (as stated): once main has branched, exactly one action has run: list-keys
\* if the list flag is set, else import-key if an import file is given, else
\* encrypt.
C4_ExactlyOneAction ==
    pc # "main" =>
      ran = << IF options.list # None THEN "list-keys"
               ELSE IF options.import_key # None THEN "import-key"
               ELSE "encrypt" >>

\* C4 (amended): at most one action runs, by the precedence list-keys >
\* import-key > encrypt over the flags that hold a non-empty value; with no
\* list flag, no import file, no recipient and no config file no action runs
\* and the usage text is printed.
C4_AtMostOneAction ==
    /\ Len(ran) <= 1
    /\ pc # "main" =>
         IF Truthy(options.list) THEN ran = <<"list-keys">>
         ELSE IF Truthy(options.import_key) THEN ran = <<"import-key">>
         ELSE IF Truthy(options.recipient) \/ Truthy(options.config)
           THEN ran = <<"encrypt">>
           ELSE ran = <<>> /\ stdout = <<"usage">> /\ exit_code = 0

C4_Witness ==
    /\ Truthy(options.list)
    /\ Truthy(options.import_key)
    /\ Truthy(options.recipient)
    /\ pc = "exit"
    /\ ran = <<"list-keys">>

\* C5 (as stated): every call of gpg.encrypt is made with a recipient that is
\* present and non-empty.
C5_RecipientPresent ==
    \A i \in DOMAIN trace :
      trace[i].op = "encrypt" => Truthy(trace[i].arg[1])

\* C6 (as stated): with a signer resolved and no passphrase from -p, from
\* --password or from the config file, no message is built and the run ends
\* with a nonzero status.
C6_NoPassphraseFatal ==
    ( /\ params # EmptyDict
      /\ Truthy(params.signer)
      /\ options.pass_file = None
      /\ options.sign_password = None
      /\ "sign_password" \notin DOMAIN cfg_file ) =>
      /\ mail_to_send = NoNode
      /\ pc = "exit" => exit_code # 0

\* C7: standard input is read at most once, only when the resolved message
\* is "--", and before every call of gpg.sign and gpg.encrypt.
C7_StdinOnce ==
    LET reads == {i \in DOMAIN trace : trace[i].op = "stdin"}
    IN  /\ Cardinality(reads) <= 1
        /\ reads # {} => params # EmptyDict /\ params.message = Str("--")
        /\ \A i \in reads : \A j \in DOMAIN trace :
             trace[j].op \in {"sign", "encrypt"} => i < j

C7_Witness ==
    /\ Len(trace) = 3
    /\ trace[1].op = "stdin"
    /\ trace[2].op = "sign"
    /\ trace[3].op = "encrypt"

\* C8: when the encrypted node was built, gpg.sign was called once if a signer
\* is configured and never otherwise, before the single gpg.encrypt call, and
\* gpg.encrypt received the multipart/signed node (the container that was
\* signed, then signature.asc) or, without signing, the multipart/mixed
\* container itself.
C8_SignThenEncrypt ==
    mail_to_send # NoNode =>
      LET signs == {i \in DOMAIN trace : trace[i].op = "sign"}
          encs == {i \in DOMAIN trace : trace[i].op = "encrypt"}
      IN  /\ Cardinality(encs) = 1
          /\ Cardinality(signs) = IF Truthy(params.signer) THEN 1 ELSE 0
          /\ \A i \in signs : \A j \in encs : i < j
          /\ \A j \in encs :
               LET data == trace[j].data.str_of
               IN  IF Truthy(params.signer)
                     THEN /\ data.subtype = "signed"
                          /\ Len(data.children) = 2
                          /\ data.children[1].subtype = "mixed"
                          /\ \A i \in signs :
                               trace[i].data = Serialize(data.children[1])
                          /\ data.children[2].ctype = "application/pgp-signature"
                          /\ data.children[2].filename = "signature.asc"
                     ELSE /\ data.subtype = "mixed"
                          /\ data.children[1].ctype = "text/plain"
                          /\ data = mail_to_encrypt

C8_Witness ==
    /\ mail_to_send # NoNode
    /\ Truthy(params.signer)
    /\ Len(mail_to_encrypt.children[1].children) = 2

\* C9: the plaintext container holds the text leaf with the message body and
\* then one attachment leaf per file of the attachment list, in list order
\* (no attachment leaf for an empty or absent list).
C9_Children ==
    mail_to_encrypt # NoNode =>
      LET c == IF mail_to_encrypt.subtype = "signed"
                 THEN mail_to_encrypt.children[1] ELSE mail_to_encrypt
          files == params.attachments
          N == IF files = None THEN 0 ELSE Len(files) - 1
      IN  /\ Len(c.children) = N + 1
          /\ c.children[1].ctype = "text/plain"
          /\ c.children[1].disposition = ""
          /\ c.children[1].payload =
               IF params.message = Str("--") THEN StdinText ELSE params.message
          /\ \A i \in 1..N :
               /\ c.children[i + 1].disposition = "attachment"
               /\ c.children[i + 1].filename = files[i + 1]
               /\ c.children[i + 1].cte = "base64"

C9_Witness ==
    /\ mail_to_encrypt # NoNode
    /\ mail_to_encrypt.subtype = "mixed"
    /\ Len(params.attachments) = 3
    /\ Len(mail_to_encrypt.children) = 3

\* C10 (as stated): an invocation routed to encrypt whose designated passphrase
\* file does not exist and in which no signer is resolved does not end with
\* status 3.
C10_LazyPassphrase ==
    LET signer == IF options.signer # None THEN options.signer
                  ELSE IF "signer" \in DOMAIN cfg_file THEN cfg_file["signer"]
                  ELSE None
    IN  ( /\ ran = <<"encrypt">>
          /\ Truthy(options.pass_file)
          /\ ~pass_file_is_file
          /\ ~Truthy(signer) ) => exit_code # 3

\* C10 (amended): the designated passphrase file is consulted as soon as the
\* encrypt action starts, whether or not a signer is given: when it does not
\* exist the run ends with status 3 before the config file is read, before
\* standard input is read and before any mail is built, signed or encrypted.
C10_EagerPassphrase ==
    ( /\ ran = <<"encrypt">>
      /\ Truthy(options.pass_file)
      /\ ~pass_file_is_file ) =>
      /\ pc = "exit" /\ exit_code = 3
      /\ params = EmptyDict
      /\ trace = <<>>
      /\ mail_to_encrypt = NoNode
      /\ stdout = <<>>

C10_Witness ==
    /\ ran = <<"encrypt">>
    /\ Truthy(options.pass_file)
    /\ ~pass_file_is_file
    /\ options.signer = None
    /\ "signer" \notin DOMAIN cfg_file
    /\ exit_code = 3
====
